---- MODULE Spec2Model ----
(***************************************************************************)
(* GeoCOCO: the tiling/windowing engine (WindowSchema, estimate_schema,    *)
(* generate_window_offsets, window_factory) and the incremental dataset    *)
(* aggregate (CocoDataset, labels_to_dataset, save/load).                  *)
(*                                                                         *)
(* The module holds several specifications over one set of variables; each *)
(* drives one part of the program and leaves the other parts untouched:    *)
(*   SpecSchema    WindowSchema construction on arbitrary integer input    *)
(*   SpecEstimate  estimate_schema's candidate loop                        *)
(*   SpecTiler     generate_window_offsets and the window_factory generator*)
(*   SpecApi       CocoDataset's methods on a loaded or a new dataset      *)
(*   Spec          ingestion runs (labels_to_dataset) with save/load       *)
(***************************************************************************)
EXTENDS Integers, Sequences, FiniteSets, TLC

VARIABLES
    \* WindowSchema(...) called with arbitrary arguments
    schema_args,      \* the keyword arguments of the call
    schema_result,    \* what the constructor gave: a schema or a ValidationError
    \* window_factory(parent_window, schema, boundless)
    parent_window,    \* rasterio Window: col_off, row_off, width, height
    schema,           \* a valid WindowSchema
    boundless,
    window_offsets,   \* the array generate_window_offsets returned
    wf_pc,            \* position of the generator: start, iter, done, raised
    wf_idx,           \* index of the next row of window_offsets
    yielded,          \* the windows yielded so far, in order
    \* estimate_schema(gdf, src, quantile, window_bounds)
    gdf_bounds,       \* <<width, height>> of each label's bounding box, map units
    src_res,          \* <<x, y>> pixel size of the raster, map units
    window_bounds,    \* the candidate <<width, height>> pairs, in the caller's order
    est_pc,           \* start, loop, after, returned, raised
    est_i,            \* the loop variable i (1-based here)
    est_overlap,      \* <<width_overlap, height_overlap>>
    est_schema,       \* the local schema: None (status "none") or a WindowSchema
    last_exception,   \* <<>> (None) or <<the ValueError caught last>>
    est_cause,        \* __cause__ of the ValueError estimate_schema raised
    \* CocoDataset and its persisted document
    dataset,          \* the in-memory CocoDataset (fields and the three counters)
    raised,           \* exception of the last call: "" when it returned
    saved,            \* <<>>, or <<the JSON document save_dataset wrote>>
    \* labels_to_dataset(dataset, images_dir, src, window_bounds, labels, ...)
    run_pc,           \* idle, preflight, add_source, verify_dir, windows
    run,              \* the locals of the run in progress
    runs_done,        \* calls of labels_to_dataset so far, completed or failed
    artifacts,        \* the tile images on disk: file_name -> the raster it was cut from
    \* dataset.add_categories(category_ids, category_names, super_names)
    cat_args,         \* <<>>, or <<the arguments of the last direct call>>
    \* mask_label(input_raster, label)
    mask_args,        \* <<>>, or <<the arguments of the last call>>
    mask_result       \* what the call gave: a mask or an exception

schemaVars == <<schema_args, schema_result>>
tilerVars == <<parent_window, schema, boundless, window_offsets, wf_pc, wf_idx, yielded>>
estVars == <<gdf_bounds, src_res, window_bounds, est_pc, est_i, est_overlap,
             est_schema, last_exception, est_cause>>
dsVars == <<dataset, raised, saved>>
runVars == <<run_pc, run, runs_done, artifacts>>
catVars == <<cat_args>>
maskVars == <<mask_args, mask_result>>
vars == <<schemaVars, tilerVars, estVars, dsVars, runVars, catVars, maskVars>>

(***************************************************************************)
(* Bounds of the model.                                                    *)
(***************************************************************************)
MaxArg == 4           \* WindowSchema arguments are drawn from -1..MaxArg
MaxWindowW == 5       \* widest window of the tiler's schemas
MaxWindowH == 3       \* highest window of the tiler's schemas
MaxColOff == 2        \* parent col_off is drawn from -1..MaxColOff
MaxRowOff == 1        \* parent row_off is drawn from -1..MaxRowOff
MaxParentW == 4       \* parent width is drawn from 1..MaxParentW
MaxParentH == 2       \* parent height is drawn from 1..MaxParentH
MaxLabels == 2        \* estimate_schema sees 1..MaxLabels labels
MaxCandidates == 2    \* estimate_schema is given 0..MaxCandidates candidates
MaxLoaded == 1        \* a loaded document holds 0..MaxLoaded images, annotations, sources
MaxApiLen == 2        \* add_image / add_annotation / add_source stop at this length
MaxVersionPart == 2   \* versions are bumped while the bumped part is below this
MaxRuns == 3          \* labels_to_dataset is called at most MaxRuns times
MaxTiles == 2         \* a run's window_factory yields 0..MaxTiles windows
MaxImages == 2        \* a run is given no more windows than keep the images within this
MaxBatch == 2         \* a batch given to add_categories has 1..MaxBatch rows
MaxCategories == 3    \* add_categories is called while the table is shorter than this
MaxPixels == 3        \* a raster given to mask_label has 1..MaxPixels pixels

Max(a, b) == IF a >= b THEN a ELSE b
Min(a, b) == IF a <= b THEN a ELSE b
CeilDiv(a, b) == (a + b - 1) \div b
SeqsUpTo(S, n) == UNION {[1..k -> S] : k \in 0..n}

(***************************************************************************)
(* window_schema.py: WindowSchema.  The pre root validator overwrites both *)
(* steps from window and overlap, then every field is validated against    *)
(* its Field constraint; a failing field is reported in the error.         *)
(***************************************************************************)
NoSchema ==
    [width_window |-> 0, height_window |-> 0, width_overlap |-> 0,
     height_overlap |-> 0, width_step |-> 0, height_step |-> 0]

calculate_steps_keep_given(values) ==
    [values EXCEPT
        !.width_step = IF values.width_step = <<>>
                       THEN <<values.width_window - values.width_overlap * 2>>
                       ELSE values.width_step,
        !.height_step = IF values.height_step = <<>>
                        THEN <<values.height_window - values.height_overlap * 2>>
                        ELSE values.height_step]

\* values.width_step / height_step arrive as <<>> (None) or <<n>>
calculate_steps(values) ==
    [values EXCEPT
        !.width_step = <<values.width_window - values.width_overlap * 2>>,
        !.height_step = <<values.height_window - values.height_overlap * 2>>]

FieldErrors(values) ==
    {f \in {"width_window", "height_window"} : ~(values[f] > 0)}
    \cup {f \in {"width_overlap", "height_overlap"} : ~(values[f] >= 0)}
    \cup {f \in {"width_step", "height_step"} :
            values[f] # <<>> /\ ~(values[f][1] > 0)}

WindowSchema(args) ==
    LET values == calculate_steps(args)
        errors == FieldErrors(values)
    IN  IF errors = {}
        THEN [status |-> "ok", errors |-> {},
              value |-> [width_window |-> values.width_window,
                         height_window |-> values.height_window,
                         width_overlap |-> values.width_overlap,
                         height_overlap |-> values.height_overlap,
                         width_step |-> values.width_step[1],
                         height_step |-> values.height_step[1]]]
        ELSE [status |-> "error", errors |-> errors, value |-> NoSchema]

SchemaArgs(ww, wo, hw, ho) ==
    [width_window |-> ww, width_overlap |-> wo, width_step |-> <<>>,
     height_window |-> hw, height_overlap |-> ho, height_step |-> <<>>]

(***************************************************************************)
(* rasterio.windows.Window and Window.intersection.                        *)
(***************************************************************************)
Window(col_off, row_off, width, height) ==
    [col_off |-> col_off, row_off |-> row_off, width |-> width, height |-> height]

Intersects(a, b) ==
    /\ Max(a.col_off, b.col_off) < Min(a.col_off + a.width, b.col_off + b.width)
    /\ Max(a.row_off, b.row_off) < Min(a.row_off + a.height, b.row_off + b.height)

\* defined when Intersects(a, b); rasterio raises WindowError otherwise
intersection(a, b) ==
    LET c0 == Max(a.col_off, b.col_off)
        r0 == Max(a.row_off, b.row_off)
        c1 == Min(a.col_off + a.width, b.col_off + b.width)
        r1 == Min(a.row_off + a.height, b.row_off + b.height)
    IN  Window(c0, r0, c1 - c0, r1 - r0)

(***************************************************************************)
(* utils.py: generate_window_offsets.  numpy's arange, meshgrid, transpose *)
(* and reshape are computed as numpy computes them.                        *)
(***************************************************************************)
RECURSIVE arange(_, _, _)
arange(start, stop, step) ==
    IF start >= stop THEN <<>>
    ELSE <<start>> \o arange(start + step, stop, step)

\* np.array(np.meshgrid(x, y)): shape (2, Len(y), Len(x)), "xy" indexing
meshgrid(x, y) ==
    [k \in 1..2 |->
        [i \in 1..Len(y) |->
            [j \in 1..Len(x) |-> IF k = 1 THEN x[j] ELSE y[i]]]]

\* a.T of an array of shape (2, R, C): shape (C, R, 2)
transpose(a, R, C) ==
    [j \in 1..C |-> [i \in 1..R |-> [k \in 1..2 |-> a[k][i][j]]]]

\* t.reshape(-1, 2) of an array of shape (C, R, 2), in C order
reshape(t, R, C) ==
    [n \in 1..(C * R) |->
        LET j == ((n - 1) \div R) + 1
            i == ((n - 1) % R) + 1
        IN  <<t[j][i][1], t[j][i][2]>>]

col_range_unclamped(window, sch) ==
    arange(window.col_off - sch.width_overlap,
           window.width + window.col_off - sch.width_overlap,
           sch.width_step)

col_range(window, sch) ==
    arange(Max(0, window.col_off - sch.width_overlap),
           window.width + window.col_off - sch.width_overlap,
           sch.width_step)

row_range_width_overlap(window, sch) ==
    arange(Max(0, window.row_off - sch.width_overlap),
           window.height + window.row_off - sch.width_overlap,
           sch.height_step)

row_range(window, sch) ==
    arange(Max(0, window.row_off - sch.height_overlap),
           window.height + window.row_off - sch.height_overlap,
           sch.height_step)

generate_window_offsets_row_major(window, sch) ==
    LET cols == col_range(window, sch)
        rows == row_range(window, sch)
    IN  [n \in 1..(Len(rows) * Len(cols)) |->
            <<cols[((n - 1) % Len(cols)) + 1], rows[((n - 1) \div Len(cols)) + 1]>>]

generate_window_offsets(window, sch) ==
    LET cols == col_range(window, sch)
        rows == row_range(window, sch)
        grid == meshgrid(cols, rows)
    IN  reshape(transpose(grid, Len(rows), Len(cols)), Len(rows), Len(cols))

(***************************************************************************)
(* utils.py: window_factory, one yield per step.                           *)
(***************************************************************************)
child_window_never_clipped(offset, sch, parent, unbounded) ==
    Window(offset[1], offset[2], sch.width_window, sch.height_window)

\* the window of one loop iteration (before the yield)
child_window(offset, sch, parent, unbounded) ==
    LET full == Window(offset[1], offset[2], sch.width_window, sch.height_window)
    IN  IF unbounded THEN full ELSE intersection(full, parent)

CallWindowFactory ==
    /\ wf_pc = "start"
    /\ window_offsets' = generate_window_offsets(parent_window, schema)
    /\ wf_idx' = 1
    /\ wf_pc' = "iter"
    /\ UNCHANGED <<parent_window, schema, boundless, yielded, schemaVars, estVars, dsVars, runVars, catVars, maskVars>>

YieldWindow ==
    /\ wf_pc = "iter"
    /\ wf_idx <= Len(window_offsets)
    /\ LET offset == window_offsets[wf_idx]
           full == Window(offset[1], offset[2], schema.width_window, schema.height_window)
       IN  IF ~boundless /\ ~Intersects(full, parent_window)
           THEN \* WindowError out of Window.intersection
                /\ wf_pc' = "raised"
                /\ UNCHANGED <<yielded, wf_idx>>
           ELSE /\ yielded' = Append(yielded, child_window(offset, schema, parent_window, boundless))
                /\ wf_idx' = wf_idx + 1
                /\ UNCHANGED wf_pc
    /\ UNCHANGED <<parent_window, schema, boundless, window_offsets, schemaVars, estVars, dsVars, runVars, catVars, maskVars>>

ExhaustWindows ==
    /\ wf_pc = "iter"
    /\ wf_idx > Len(window_offsets)
    /\ wf_pc' = "done"
    /\ UNCHANGED <<parent_window, schema, boundless, window_offsets, wf_idx, yielded, schemaVars, estVars, dsVars, runVars, catVars, maskVars>>

\* schemas and parents of the repository's tests and documentation
(***************************************************************************)
(* utils.py: estimate_average_bounds and estimate_schema.  The quantile is *)
(* numpy's (linear interpolation between the two nearest order statistics) *)
(* kept exact as a fraction over QuantileDen.                              *)
(***************************************************************************)
QuantileNum == 9
QuantileDen == 10

RECURSIVE Insert(_, _)
Insert(x, sorted) ==
    IF sorted = <<>> THEN <<x>>
    ELSE IF x <= Head(sorted) THEN <<x>> \o sorted
    ELSE <<Head(sorted)>> \o Insert(x, Tail(sorted))

RECURSIVE Sort(_)
Sort(values) == IF values = <<>> THEN <<>> ELSE Insert(Head(values), Sort(Tail(values)))

\* QuantileDen * np.nanquantile(values, QuantileNum / QuantileDen)
nanquantile(values) ==
    LET v == Sort(values)
        h == (Len(v) - 1) * QuantileNum
        lo == (h \div QuantileDen) + 1
        rem == h % QuantileDen
    IN  IF rem = 0 THEN v[lo] * QuantileDen
        ELSE v[lo] * QuantileDen + rem * (v[lo + 1] - v[lo])

\* <<average_width, average_height>>, each times QuantileDen
estimate_average_bounds(gdf) ==
    <<nanquantile([n \in 1..Len(gdf) |-> gdf[n][1]]),
      nanquantile([n \in 1..Len(gdf) |-> gdf[n][2]])>>

\* int(np.ceil(average / res)) per axis
required_overlap(gdf, res) ==
    LET average == estimate_average_bounds(gdf)
    IN  <<CeilDiv(average[1], QuantileDen * res[1]),
          CeilDiv(average[2], QuantileDen * res[2])>>

candidate_at_reversed(bounds, i) == bounds[Len(bounds) + 1 - i]

\* width, height = window_bounds[i]
candidate_at(bounds, i) == bounds[i]

try_schema(bounds, i, overlap) ==
    WindowSchema(SchemaArgs(candidate_at(bounds, i)[1], overlap[1],
                            candidate_at(bounds, i)[2], overlap[2]))

EstimateOverlap ==
    /\ est_pc = "start"
    /\ est_overlap' = required_overlap(gdf_bounds, src_res)
    /\ est_i' = 1
    /\ est_pc' = "loop"
    /\ UNCHANGED <<gdf_bounds, src_res, window_bounds, est_schema, last_exception,
                   est_cause, schemaVars, tilerVars, dsVars, runVars, catVars, maskVars>>

\* one iteration of the loop over window_bounds
TryCandidate ==
    /\ est_pc = "loop"
    /\ est_i <= Len(window_bounds)
    /\ LET result == try_schema(window_bounds, est_i, est_overlap)
       IN  IF result.status = "ok"
           THEN /\ est_schema' = result
                /\ est_pc' = "after"        \* break
                /\ UNCHANGED <<est_i, last_exception>>
           ELSE /\ last_exception' = <<[candidate |-> est_i, errors |-> result.errors]>>
                /\ est_i' = est_i + 1       \* continue
                /\ UNCHANGED <<est_schema, est_pc>>
    /\ UNCHANGED <<gdf_bounds, src_res, window_bounds, est_overlap, est_cause,
                   schemaVars, tilerVars, dsVars, runVars, catVars, maskVars>>

\* after the loop: raise ... from last_exception, or return schema
FinishEstimate ==
    /\ \/ est_pc = "after"
       \/ est_pc = "loop" /\ est_i > Len(window_bounds)
    /\ IF est_schema.status = "none"
       THEN est_pc' = "raised" /\ est_cause' = last_exception
       ELSE est_pc' = "returned" /\ UNCHANGED est_cause
    /\ UNCHANGED <<gdf_bounds, src_res, window_bounds, est_i, est_overlap, est_schema,
                   last_exception, schemaVars, tilerVars, dsVars, runVars, catVars, maskVars>>

(***************************************************************************)
(* coco_models.py: CocoDataset.  An Image's file_name is kept as its       *)
(* parent directory and its name (the source id and the tile rectangle,    *)
(* the latter as one key); an Annotation's segmentation, area, bbox and    *)
(* iscrowd are kept as the label they are computed from.                   *)
(***************************************************************************)
Dirs == {"out1", "out2"}
Rasters == {"a.tif", "b.tif"}

Version(major, minor, patch) == [major |-> major, minor |-> minor, patch |-> patch]

Image(id, parent, source_id, tile) ==
    [id |-> id, file_name |-> [parent |-> parent, name |-> <<source_id, tile>>],
     source_id |-> source_id]

Annotation(id, image_id, category_id, label) ==
    [id |-> id, image_id |-> image_id, category_id |-> category_id, label |-> label]

Source(id, file_name) == [id |-> id, file_name |-> file_name]

\* the root validator _set_ids, run whenever a CocoDataset is constructed
set_ids(values) ==
    [info |-> values.info,
     images |-> values.images,
     annotations |-> values.annotations,
     categories |-> values.categories,
     sources |-> values.sources,
     next_image_id |-> Len(values.images) + 1,
     next_annotation_id |-> Len(values.annotations) + 1,
     next_source_id |-> Len(values.sources)]

\* coco_manager.py: create_dataset, with the default version 0.0.0
create_dataset ==
    set_ids([info |-> [version |-> Version(0, 0, 0)], images |-> <<>>,
             annotations |-> <<>>, categories |-> <<>>, sources |-> <<>>])

\* dataset.json(): the three counters are excluded from the document
to_json(ds) ==
    [info |-> ds.info, images |-> ds.images, annotations |-> ds.annotations,
     categories |-> ds.categories, sources |-> ds.sources]

\* coco_manager.py: load_dataset, CocoDataset.parse_raw of the document
load_dataset(document) == set_ids(document)

add_annotation_no_increment(ds, annotation) ==
    [ds EXCEPT !.annotations = Append(@, annotation)]

add_annotation(ds, annotation) ==
    [ds EXCEPT !.annotations = Append(@, annotation), !.next_annotation_id = @ + 1]

add_image_prepends(ds, image) ==
    [ds EXCEPT !.images = <<image>> \o @, !.next_image_id = @ + 1]

add_image_bumps_both(ds, image) ==
    [ds EXCEPT !.images = Append(@, image), !.next_image_id = @ + 1,
               !.next_annotation_id = @ + 1]

add_image(ds, image) ==
    [ds EXCEPT !.images = Append(@, image), !.next_image_id = @ + 1]

BumpMethods == {"patch", "minor", "major"}

bump_version_keeps_lower(ds, bump_method) ==
    LET v == ds.info.version
    IN  [ds EXCEPT !.info.version =
            CASE bump_method = "patch" -> Version(v.major, v.minor, v.patch + 1)
              [] bump_method = "minor" -> Version(v.major, v.minor + 1, v.patch)
              [] OTHER -> Version(v.major + 1, v.minor, v.patch)]

\* semver's bump_patch / bump_minor / bump_major
bump_version(ds, bump_method) ==
    LET v == ds.info.version
    IN  [ds EXCEPT !.info.version =
            CASE bump_method = "patch" -> Version(v.major, v.minor, v.patch + 1)
              [] bump_method = "minor" -> Version(v.major, v.minor + 1, 0)
              [] OTHER -> Version(v.major + 1, 0, 0)]

add_source_always_appends(ds, source_path) ==
    LET source == Source(Len(ds.sources) + 1, source_path)
    IN  [bump_version([ds EXCEPT !.sources = Append(@, source)], "minor")
            EXCEPT !.next_source_id = source.id]

add_source_silent_when_known(ds, source_path) ==
    LET sources == SelectSeq(ds.sources, LAMBDA ssrc : ssrc.file_name = source_path)
    IN  IF sources # <<>>
        THEN [ds EXCEPT !.next_source_id = sources[1].id]
        ELSE LET source == Source(Len(ds.sources) + 1, source_path)
             IN  [bump_version([ds EXCEPT !.sources = Append(@, source)], "minor")
                     EXCEPT !.next_source_id = source.id]

add_source_next_is_length(ds, source_path) ==
    LET sources == SelectSeq(ds.sources, LAMBDA ssrc : ssrc.file_name = source_path)
    IN  IF sources # <<>>
        THEN [bump_version(ds, "patch") EXCEPT !.next_source_id = Len(ds.sources)]
        ELSE LET source == Source(Len(ds.sources) + 1, source_path)
             IN  [bump_version([ds EXCEPT !.sources = Append(@, source)], "minor")
                     EXCEPT !.next_source_id = Len(ds.sources) + 1]

add_source(ds, source_path) ==
    LET sources == SelectSeq(ds.sources, LAMBDA ssrc : ssrc.file_name = source_path)
    IN  IF sources # <<>>
        THEN [bump_version(ds, "patch") EXCEPT !.next_source_id = sources[1].id]
        ELSE LET source == Source(Len(ds.sources) + 1, source_path)
             IN  [bump_version([ds EXCEPT !.sources = Append(@, source)], "minor")
                     EXCEPT !.next_source_id = source.id]

output_dirs(ds) == {ds.images[n].file_name.parent : n \in 1..Len(ds.images)}

verify_new_output_dir_always_bumps(ds, images_dir) == bump_version(ds, "major")

verify_new_output_dir(ds, images_dir) ==
    IF images_dir \notin output_dirs(ds) THEN bump_version(ds, "major") ELSE ds

(***************************************************************************)
(* coco_models.py: add_categories.  A category name is kept as the         *)
(* sequence of its character codes, so that str(id) and numpy's sorting of *)
(* names are computed; supercategories are plain strings.                  *)
(***************************************************************************)
super_default == "1"

Category(id, name, supercategory) ==
    [id |-> id, name |-> name, supercategory |-> supercategory]

RECURSIVE Str(_)
Str(n) == IF n < 10 THEN <<48 + n>> ELSE Str(n \div 10) \o <<48 + (n % 10)>>

RECURSIVE LexLE(_, _)
LexLE(a, b) ==
    IF a = <<>> THEN TRUE
    ELSE IF b = <<>> THEN FALSE
    ELSE IF Head(a) # Head(b) THEN Head(a) < Head(b)
    ELSE LexLE(Tail(a), Tail(b))

KeyLE(uid_attribute, a, b) == IF uid_attribute = "id" THEN a <= b ELSE LexLE(a, b)

Range(f) == {f[x] : x \in DOMAIN f}
SetMax(S) == CHOOSE x \in S : \A y \in S : y <= x

RECURSIVE SortKeys(_, _)
SortKeys(S, uid_attribute) ==
    IF S = {} THEN <<>>
    ELSE LET least == CHOOSE x \in S : \A y \in S : KeyLE(uid_attribute, x, y)
         IN  <<least>> \o SortKeys(S \ {least}, uid_attribute)

unique_last_index(array, uid_attribute) ==
    LET values == SortKeys(Range(array), uid_attribute)
    IN  [values |-> values,
         indices |-> [n \in 1..Len(values) |->
                        CHOOSE i \in 1..Len(array) :
                            /\ array[i] = values[n]
                            /\ \A j \in (i + 1)..Len(array) : array[j] # values[n]]]

unique_first_appearance(array, uid_attribute) ==
    LET firsts == SelectSeq([i \in 1..Len(array) |-> i],
                            LAMBDA i : \A j \in 1..(i - 1) : array[j] # array[i])
    IN  [values |-> [n \in 1..Len(firsts) |-> array[firsts[n]]], indices |-> firsts]

\* np.unique(array, return_index=True): the sorted distinct values and, for
\* each, the index of its first occurrence
unique(array, uid_attribute) ==
    LET values == SortKeys(Range(array), uid_attribute)
    IN  [values |-> values,
         indices |-> [n \in 1..Len(values) |->
                        CHOOSE i \in 1..Len(array) :
                            /\ array[i] = values[n]
                            /\ \A j \in 1..(i - 1) : array[j] # values[n]]]

isin_never(element, test_elements) == FALSE

\* np.isin, for one element
isin(element, test_elements) == element \in test_elements

\* category_ids, category_names, super_names: <<>> (None) or <<the column>>
add_categories(ds, category_ids, category_names, super_names) ==
    LET names_present == category_names # <<>>
        ids_present == category_ids # <<>>
    IN  IF ~names_present /\ ~ids_present
        THEN [raised |-> "AttributeError", dataset |-> ds]
        ELSE
        LET uid_attribute == IF ids_present THEN "id" ELSE "name"
            uid_input == IF ids_present THEN category_ids[1] ELSE category_names[1]
            original_shape == Len(uid_input)
            u == unique(uid_input, uid_attribute)
            uid_array == u.values
            indices == u.indices
            known == {ds.categories[c][uid_attribute] : c \in 1..Len(ds.categories)}
            member_mask == [n \in 1..Len(uid_array) |-> isin(uid_array[n], known)]
            keep == SelectSeq([n \in 1..Len(uid_array) |-> n], LAMBDA n : ~member_mask[n])
            new_members == [m \in 1..Len(keep) |-> uid_array[keep[m]]]
        IN  IF Len(new_members) = 0
            THEN [raised |-> "", dataset |-> ds]
            ELSE IF super_names # <<>> /\ Len(super_names[1]) # original_shape
            THEN [raised |-> "AssertionError", dataset |-> ds]
            ELSE IF ids_present /\ names_present /\ Len(category_names[1]) # original_shape
            THEN [raised |-> "AssertionError", dataset |-> ds]
            ELSE
            LET supers == [m \in 1..Len(keep) |->
                             IF super_names = <<>> THEN super_default
                             ELSE super_names[1][indices[keep[m]]]]
                matched == {uid_array[n] : n \in {k \in 1..Len(uid_array) : member_mask[k]}}
                matched_ids == {ds.categories[c].id :
                                  c \in {k \in 1..Len(ds.categories) :
                                           ds.categories[k][uid_attribute] \in matched}}
                start == IF matched_ids = {} THEN 1 ELSE SetMax(matched_ids) + 1
                ids == [m \in 1..Len(keep) |->
                          IF ids_present THEN new_members[m] ELSE start + m - 1]
                names == [m \in 1..Len(keep) |->
                            IF ~names_present THEN Str(new_members[m])
                            ELSE IF ~ids_present THEN new_members[m]
                            ELSE category_names[1][indices[keep[m]]]]
            IN  [raised |-> "",
                 dataset |-> [ds EXCEPT !.categories =
                                @ \o [m \in 1..Len(keep) |->
                                        Category(ids[m], names[m], supers[m])]]]

(***************************************************************************)
(* utils.py: update_labels.  A label table is its set of columns and its   *)
(* rows; a row's geometry is the row's index.                              *)
(***************************************************************************)
Column(labels, col) ==
    IF col \in labels.columns
    THEN <<[n \in 1..Len(labels.rows) |-> labels.rows[n][col]]>>
    ELSE <<>>

RECURSIVE Flatten(_)
Flatten(seqs) == IF seqs = <<>> THEN <<>> ELSE Head(seqs) \o Flatten(Tail(seqs))

\* np.where(column.reshape(-1, 1) == category attribute)[1]: for each row in
\* turn, the positions of the categories with the row's key
update_labels(labels, categories) ==
    LET attribute == IF "category_id" \in labels.columns THEN "id" ELSE "name"
        col == IF attribute = "id" THEN "category_id" ELSE "category_name"
        all == [n \in 1..Len(categories) |-> n]
        indices == Flatten([r \in 1..Len(labels.rows) |->
                      SelectSeq(all, LAMBDA c :
                          categories[c][attribute] = labels.rows[r][col])])
    IN  IF Len(indices) # Len(labels.rows)
        THEN [raised |-> "ValueError", rows |-> <<>>]
        ELSE [raised |-> "",
              rows |-> [r \in 1..Len(labels.rows) |->
                          [geometry |-> r,
                           id |-> categories[indices[r]].id,
                           name |-> categories[indices[r]].name,
                           supercategory |-> categories[indices[r]].supercategory]]]

(***************************************************************************)
(* coco_processing.py: labels_to_dataset, in the order of its statements.  *)
(***************************************************************************)
\* entry: the dataset as it was passed to the call
\* tile: when the last window's artifact was on disk already: its path, the
\* labels the window intersects and the masks they have on a tile cut from this
\* run's raster
NoRun ==
    [images_dir |-> "", src_name |-> "", labels |-> <<>>, n_windows |-> 0, window |-> 0,
     entry |-> <<>>, tile |-> <<>>]

\* window_labels.sort_values("id"): the rows in the order of their category id
RECURSIVE sort_values(_)
sort_values(rows) ==
    IF rows = <<>> THEN <<>>
    ELSE LET least == CHOOSE i \in 1..Len(rows) :
                          /\ \A j \in 1..Len(rows) : rows[i].id <= rows[j].id
                          /\ \A j \in 1..(i - 1) : rows[j].id # rows[i].id
         IN  <<rows[least]>> \o
             sort_values([n \in 1..(Len(rows) - 1) |->
                            IF n < least THEN rows[n] ELSE rows[n + 1]])

\* the inner loop over the window's labels: one Annotation for every label
\* whose mask has a True pixel, added with the ids current at that moment
RECURSIVE add_annotations(_, _, _)
add_annotations(ds, window_labels, has_mask) ==
    IF window_labels = <<>> THEN ds
    ELSE LET window_label == Head(window_labels)
         IN  IF ~has_mask[window_label.geometry]
             THEN add_annotations(ds, Tail(window_labels), has_mask)
             ELSE add_annotations(
                      add_annotation(ds,
                          Annotation(ds.next_annotation_id, ds.next_image_id,
                                     window_label.id, window_label.geometry)),
                      Tail(window_labels), has_mask)

image_id_stale(ds) == Len(ds.images)

\* id=dataset.next_image_id of the Image instance
image_id(ds) == ds.next_image_id

\* validate_labels, add_categories, update_labels
StartRun(images_dir, src_name, labels) ==
    /\ run_pc = "idle"
    /\ runs_done < MaxRuns
    /\ runs_done' = runs_done + 1
    /\ LET added == add_categories(dataset, Column(labels, "category_id"),
                                   Column(labels, "category_name"),
                                   Column(labels, "supercategory"))
           updated == update_labels(labels, added.dataset.categories)
       IN  /\ dataset' = added.dataset
           /\ IF added.raised # "" \/ updated.raised # ""
              THEN /\ raised' = (IF added.raised # "" THEN added.raised ELSE updated.raised)
                   /\ UNCHANGED <<run_pc, run>>
              ELSE /\ raised' = ""
                   /\ run_pc' = "preflight"
                   /\ run' = [images_dir |-> images_dir, src_name |-> src_name,
                              labels |-> updated.rows, n_windows |-> 0, window |-> 0,
                              entry |-> <<dataset>>, tile |-> <<>>]
    /\ UNCHANGED <<saved, artifacts, schemaVars, tilerVars, estVars, catVars, maskVars>>

\* window_intersect, estimate_schema and generate_window_offsets: they raise on
\* a CRS mismatch, on disjoint extents and when no candidate gives a schema
Preflight(outcome, n_windows) ==
    /\ run_pc = "preflight"
    /\ Len(dataset.images) + n_windows <= MaxImages
    /\ IF outcome # ""
       THEN /\ raised' = outcome
            /\ run_pc' = "idle"
            /\ run' = NoRun
       ELSE /\ run' = [run EXCEPT !.n_windows = n_windows, !.window = 1]
            /\ run_pc' = "add_source"
            /\ UNCHANGED raised
    /\ UNCHANGED <<dataset, saved, runs_done, artifacts, schemaVars, tilerVars, estVars, catVars, maskVars>>

RunAddSource ==
    /\ run_pc = "add_source"
    /\ dataset' = add_source(dataset, run.src_name)
    /\ run_pc' = "verify_dir"
    /\ UNCHANGED <<raised, saved, run, runs_done, artifacts, schemaVars, tilerVars, estVars, catVars, maskVars>>

RunVerifyDir ==
    /\ run_pc = "verify_dir"
    /\ dataset' = verify_new_output_dir(dataset, run.images_dir)
    /\ run_pc' = "windows"
    /\ UNCHANGED <<raised, saved, run, runs_done, artifacts, schemaVars, tilerVars, estVars, catVars, maskVars>>

\* with rasterio.open(window_image_path, "w") ... dst.write(window_image)
write(files, path, content) ==
    [p \in DOMAIN files \cup {path} |-> IF p = path THEN content ELSE files[p]]

\* one iteration of the loop over window_factory's windows.  intersects: the
\* labels the window's polygon intersects; has_mask: the labels whose mask has
\* a True pixel on a tile cut from this run's raster; stale_mask: the same on
\* the tile found at the path when that was cut from another raster
ProcessWindow(intersects, has_mask, stale_mask) ==
    /\ run_pc = "windows"
    /\ run.window <= run.n_windows
    /\ IF \A r \in 1..Len(run.labels) : ~intersects[r]
       THEN /\ stale_mask = has_mask
            /\ run' = [run EXCEPT !.window = @ + 1, !.tile = <<>>]
            /\ UNCHANGED <<dataset, artifacts>>       \* continue
       ELSE LET window_labels == SelectSeq(run.labels, LAMBDA l : intersects[l.geometry])
                image_instance == Image(image_id(dataset), run.images_dir,
                                        dataset.next_source_id, run.window)
                window_image_path == image_instance.file_name
                exists == window_image_path \in DOMAIN artifacts
                windowed_src == IF exists THEN artifacts[window_image_path] ELSE run.src_name
                label_mask == IF windowed_src = run.src_name THEN has_mask ELSE stale_mask
            IN  /\ windowed_src = run.src_name => stale_mask = has_mask
                /\ artifacts' = (IF exists THEN artifacts
                                 ELSE write(artifacts, window_image_path, run.src_name))
                /\ run' = [run EXCEPT !.window = @ + 1,
                                      !.tile = IF exists
                                               THEN <<[file_name |-> window_image_path,
                                                       intersects |-> intersects,
                                                       has_mask |-> has_mask]>>
                                               ELSE <<>>]
                /\ dataset' = add_image(
                                 add_annotations(dataset, sort_values(window_labels), label_mask),
                                 image_instance)
    /\ UNCHANGED <<raised, saved, run_pc, runs_done, schemaVars, tilerVars, estVars, catVars, maskVars>>

ReturnDataset ==
    /\ run_pc = "windows"
    /\ run.window > run.n_windows
    /\ run_pc' = "idle"
    /\ run' = NoRun
    /\ UNCHANGED <<dataset, raised, saved, runs_done, artifacts, schemaVars, tilerVars, estVars, catVars, maskVars>>

(***************************************************************************)
(* CocoDataset's methods called directly, on a new or a loaded dataset.    *)
(***************************************************************************)
ApiImages == {Image(1, "out1", 1, 1), Image(2, "out2", 1, 1)}
ApiAnnotations == {Annotation(1, 1, 1, 1), Annotation(2, 1, 1, 1)}

BumpAllowed(ds, bump_method) ==
    CASE bump_method = "patch" -> ds.info.version.patch < MaxVersionPart
      [] bump_method = "minor" -> ds.info.version.minor < MaxVersionPart
      [] OTHER -> ds.info.version.major < MaxVersionPart

AddImage(image) ==
    /\ Len(dataset.images) < MaxApiLen
    /\ dataset' = add_image(dataset, image)
    /\ raised' = ""
    /\ UNCHANGED <<saved, schemaVars, tilerVars, estVars, runVars, catVars, maskVars>>

AddAnnotation(annotation) ==
    /\ Len(dataset.annotations) < MaxApiLen
    /\ dataset' = add_annotation(dataset, annotation)
    /\ raised' = ""
    /\ UNCHANGED <<saved, schemaVars, tilerVars, estVars, runVars, catVars, maskVars>>

AddSource(source_path) ==
    /\ \/ Len(dataset.sources) < MaxApiLen
       \/ \E n \in 1..Len(dataset.sources) : dataset.sources[n].file_name = source_path
    /\ BumpAllowed(dataset, IF \E n \in 1..Len(dataset.sources) :
                                 dataset.sources[n].file_name = source_path
                            THEN "patch" ELSE "minor")
    /\ dataset' = add_source(dataset, source_path)
    /\ raised' = ""
    /\ UNCHANGED <<saved, schemaVars, tilerVars, estVars, runVars, catVars, maskVars>>

VerifyNewOutputDir(images_dir) ==
    /\ images_dir \in output_dirs(dataset) \/ BumpAllowed(dataset, "major")
    /\ dataset' = verify_new_output_dir(dataset, images_dir)
    /\ raised' = ""
    /\ UNCHANGED <<saved, schemaVars, tilerVars, estVars, runVars, catVars, maskVars>>

BumpVersion(bump_method) ==
    /\ IF bump_method \notin BumpMethods
       THEN raised' = "ValueError" /\ UNCHANGED dataset
       ELSE /\ BumpAllowed(dataset, bump_method)
            /\ dataset' = bump_version(dataset, bump_method)
            /\ raised' = ""
    /\ UNCHANGED <<saved, schemaVars, tilerVars, estVars, runVars, catVars, maskVars>>

\* a direct call of add_categories; an exception leaves the table as it was,
\* every raise coming before the first append
AddCategories(category_ids, category_names, super_names) ==
    /\ Len(dataset.categories) < MaxCategories
    /\ LET added == add_categories(dataset, category_ids, category_names, super_names)
       IN  /\ dataset' = added.dataset
           /\ raised' = added.raised
    /\ cat_args' = <<[category_ids |-> category_ids, category_names |-> category_names,
                      super_names |-> super_names]>>
    /\ UNCHANGED <<saved, schemaVars, tilerVars, estVars, runVars, maskVars>>

SaveDataset ==
    /\ saved' = <<to_json(dataset)>>
    /\ raised' = ""
    /\ UNCHANGED <<dataset, schemaVars, tilerVars, estVars, runVars, catVars, maskVars>>

LoadDataset ==
    /\ saved # <<>>
    /\ dataset' = load_dataset(saved[1])
    /\ raised' = ""
    /\ UNCHANGED <<saved, schemaVars, tilerVars, estVars, runVars, catVars, maskVars>>

(***************************************************************************)
(* The parts a specification does not drive stay in these states.          *)
(***************************************************************************)
IdleSchemaResult == [status |-> "idle", errors |-> {}, value |-> NoSchema]

SchemaIdle ==
    /\ schema_args = SchemaArgs(0, 0, 0, 0)
    /\ schema_result = IdleSchemaResult

TilerIdle ==
    /\ parent_window = Window(0, 0, 0, 0)
    /\ schema = NoSchema
    /\ boundless = TRUE
    /\ window_offsets = <<>>
    /\ wf_pc = "idle"
    /\ wf_idx = 0
    /\ yielded = <<>>

EstimateIdle ==
    /\ gdf_bounds = <<>>
    /\ src_res = <<1, 1>>
    /\ window_bounds = <<>>
    /\ est_pc = "idle"
    /\ est_i = 0
    /\ est_overlap = <<0, 0>>
    /\ est_schema = [status |-> "none", errors |-> {}, value |-> NoSchema]
    /\ last_exception = <<>>
    /\ est_cause = <<>>

(***************************************************************************)
(* utils.py: mask_label.  A raster is a row of pixels 1..width; a label is *)
(* the set of cells it touches, cells outside 1..width lying off the       *)
(* raster.                                                                 *)
(***************************************************************************)
NoMask == [raised |-> "", value |-> <<>>]

mask_label_closed_ignored(input_raster, label) ==
    [raised |-> "", value |-> <<[pixel \in 1..input_raster.width |-> pixel \in label]>>]

\* riomask(all_touched=True, filled=False), np.all over the bands, np.invert:
\* True on the pixels the label touches
mask_label(input_raster, label) ==
    IF input_raster.closed
    THEN [raised |-> "ValueError", value |-> <<>>]
    ELSE [raised |-> "", value |-> <<[pixel \in 1..input_raster.width |-> pixel \in label]>>]

MaskLabel(input_raster, label) ==
    /\ mask_args' = <<[input_raster |-> input_raster, label |-> label]>>
    /\ mask_result' = mask_label(input_raster, label)
    /\ UNCHANGED <<schemaVars, tilerVars, estVars, dsVars, runVars, catVars>>

DatasetIdle ==
    /\ dataset = create_dataset
    /\ raised = ""
    /\ saved = <<>>

CategoriesIdle == cat_args = <<>>

MaskIdle ==
    /\ mask_args = <<>>
    /\ mask_result = NoMask

RunIdle ==
    /\ run_pc = "idle"
    /\ run = NoRun
    /\ runs_done = 0
    /\ artifacts = <<>>

\* the documents a dataset is loaded from: any images and annotations, whatever

(***************************************************************************)
(* WindowSchema called with arbitrary integers.                            *)
(***************************************************************************)
ArgInts == (0 - 1)..MaxArg
GivenSteps == {<<>>, <<0>>, <<1>>}

Construct ==
    /\ schema_result.status = "pending"
    /\ schema_result' = WindowSchema(schema_args)
    /\ UNCHANGED <<schema_args, tilerVars, estVars, dsVars, runVars, catVars, maskVars>>

InitSchema ==
    /\ schema_args \in
         [width_window : ArgInts, width_overlap : ArgInts, width_step : GivenSteps,
          height_window : ArgInts, height_overlap : ArgInts, height_step : GivenSteps]
    /\ schema_result = [status |-> "pending", errors |-> {}, value |-> NoSchema]
    /\ TilerIdle
    /\ EstimateIdle
    /\ DatasetIdle
    /\ RunIdle
    /\ CategoriesIdle
    /\ MaskIdle

NextSchema == Construct

SpecSchema == InitSchema /\ [][NextSchema]_vars

(***************************************************************************)
(* window_factory over the small and the documented tilings.               *)
(***************************************************************************)
DocumentedTilings ==
    { [s |-> SchemaArgs(100, 20, 100, 20), p |-> Window(0, 0, 1000, 100)],
      [s |-> SchemaArgs(110, 0, 110, 0), p |-> Window(0, 0, 100, 100)],
      [s |-> SchemaArgs(100, 10, 100, 10), p |-> Window(0 - 100, 0 - 100, 256, 256)],
      [s |-> SchemaArgs(100, 10, 100, 10), p |-> Window(0, 0, 50, 50)],
      [s |-> SchemaArgs(300, 0, 300, 0), p |-> Window(0, 0, 256, 256)] }

SmallTilings ==
    { [s |-> SchemaArgs(ww, wo, hw, ho), p |-> Window(c, r, w, h)] :
        ww \in 1..MaxWindowW, wo \in 0..(MaxWindowW \div 2),
        hw \in 1..MaxWindowH, ho \in 0..(MaxWindowH \div 2),
        c \in (0 - 1)..MaxColOff, r \in (0 - 1)..MaxRowOff,
        w \in 1..MaxParentW, h \in 1..MaxParentH }

InitTiler ==
    /\ \E t \in DocumentedTilings \cup SmallTilings :
          /\ WindowSchema(t.s).status = "ok"
          /\ schema = WindowSchema(t.s).value
          /\ parent_window = t.p
    /\ boundless \in BOOLEAN
    /\ window_offsets = <<>>
    /\ wf_pc = "start"
    /\ wf_idx = 0
    /\ yielded = <<>>
    /\ SchemaIdle
    /\ EstimateIdle
    /\ DatasetIdle
    /\ RunIdle
    /\ CategoriesIdle
    /\ MaskIdle

NextTiler == CallWindowFactory \/ YieldWindow \/ ExhaustWindows

SpecTiler == InitTiler /\ [][NextTiler]_vars

(***************************************************************************)
(* estimate_schema over small label sets and candidate lists.              *)
(***************************************************************************)
LabelBounds == {<<1, 1>>, <<1, 3>>, <<3, 2>>}
Resolutions == {<<1, 1>>, <<2, 1>>}
CandidateWindows == {<<2, 2>>, <<4, 8>>, <<8, 4>>, <<8, 8>>}


InitEstimate ==
    /\ gdf_bounds \in SeqsUpTo(LabelBounds, MaxLabels) \ {<<>>}
    /\ src_res \in Resolutions
    /\ window_bounds \in SeqsUpTo(CandidateWindows, MaxCandidates)
    /\ est_pc = "start"
    /\ est_i = 0
    /\ est_overlap = <<0, 0>>
    /\ est_schema = [status |-> "none", errors |-> {}, value |-> NoSchema]
    /\ last_exception = <<>>
    /\ est_cause = <<>>
    /\ SchemaIdle
    /\ TilerIdle
    /\ DatasetIdle
    /\ RunIdle
    /\ CategoriesIdle
    /\ MaskIdle

NextEstimate == EstimateOverlap \/ TryCandidate \/ FinishEstimate

SpecEstimate == InitEstimate /\ [][NextEstimate]_vars

(***************************************************************************)
(* CocoDataset loaded from a document, then called directly.               *)
(***************************************************************************)
\* documents on disk: images and annotations whatever their ids, and sources
\* numbered as add_source numbers them
LoadableDocuments ==
    { [info |-> [version |-> Version(0, 0, 0)], images |-> i, annotations |-> a,
       categories |-> <<>>, sources |-> s] :
        i \in SeqsUpTo(ApiImages, MaxLoaded),
        a \in SeqsUpTo(ApiAnnotations, MaxLoaded),
        s \in {<<>>} \cup {<<Source(1, r)>> : r \in Rasters} }

InitApi ==
    /\ \E document \in LoadableDocuments : dataset = load_dataset(document)
    /\ saved = <<>>
    /\ raised = ""
    /\ RunIdle
    /\ CategoriesIdle
    /\ MaskIdle
    /\ SchemaIdle
    /\ TilerIdle
    /\ EstimateIdle

NextApi ==
    \/ \E image \in ApiImages : AddImage(image)
    \/ \E annotation \in ApiAnnotations : AddAnnotation(annotation)
    \/ \E source_path \in Rasters : AddSource(source_path)
    \/ \E images_dir \in Dirs : VerifyNewOutputDir(images_dir)
    \/ \E bump_method \in BumpMethods \cup {"build"} : BumpVersion(bump_method)

SpecApi == InitApi /\ [][NextApi]_vars

(***************************************************************************)
(* add_categories called directly on a new dataset, in any mix of modes.   *)
(***************************************************************************)
CatIds == {1, 2}
CatNames == {<<97>>, <<98>>, <<99>>}       \* "a", "b", "c"
CatSupers == {"s", "t"}

\* a column of 1..MaxBatch values
Columns(S) == SeqsUpTo(S, MaxBatch) \ {<<>>}

Batch(category_ids, category_names, super_names) ==
    [category_ids |-> category_ids, category_names |-> category_names,
     super_names |-> super_names]

\* ids only (with and without supercategories), names only, both (of equal
\* and of different lengths), and neither
CategoryBatches ==
    {Batch(<<ids>>, <<>>, <<>>) : ids \in Columns(CatIds)}
    \cup {Batch(<<ids>>, <<>>, <<supers>>) : ids \in Columns(CatIds), supers \in Columns(CatSupers)}
    \cup {Batch(<<>>, <<names>>, <<>>) : names \in Columns(CatNames)}
    \cup {Batch(<<ids>>, <<names>>, <<>>) :
             ids \in Columns(CatIds), names \in Columns(CatNames \ {<<99>>})}
    \cup {Batch(<<>>, <<>>, <<>>)}

InitCategories ==
    /\ DatasetIdle
    /\ RunIdle
    /\ CategoriesIdle
    /\ MaskIdle
    /\ SchemaIdle
    /\ TilerIdle
    /\ EstimateIdle

NextCategories ==
    \E batch \in CategoryBatches :
        AddCategories(batch.category_ids, batch.category_names, batch.super_names)

SpecCategories == InitCategories /\ [][NextCategories]_vars

(***************************************************************************)
(* mask_label called on open and closed readers, with labels on and off    *)
(* the raster.                                                             *)
(***************************************************************************)
DatasetReaders == [closed : BOOLEAN, width : 1..MaxPixels]
Labels == (SUBSET (0..(MaxPixels + 1))) \ {{}}

InitMask ==
    /\ MaskIdle
    /\ DatasetIdle
    /\ RunIdle
    /\ CategoriesIdle
    /\ SchemaIdle
    /\ TilerIdle
    /\ EstimateIdle

NextMask == \E input_raster \in DatasetReaders, label \in Labels : MaskLabel(input_raster, label)

SpecMask == InitMask /\ [][NextMask]_vars

(***************************************************************************)
(* Ingestion runs on a new dataset, with save_dataset and load_dataset     *)
(* between the runs.                                                       *)
(***************************************************************************)
LabelRow(id, name) == [category_id |-> id, category_name |-> name, supercategory |-> ""]

IdTable(ids) ==
    [columns |-> {"category_id"}, rows |-> [n \in 1..Len(ids) |-> LabelRow(ids[n], <<>>)]]

NameTable(names) ==
    [columns |-> {"category_name"}, rows |-> [n \in 1..Len(names) |-> LabelRow(0, names[n])]]

\* label tables keyed by category_id and keyed by category_name, with keys
\* out of order so that sorting shows
RunLabelTables ==
    {IdTable(<<2, 1>>), NameTable(<<<<98>>, <<97>>>>)}

PreflightErrors == {"ValueError"}

\* the artifact at the next window's path was cut from another raster
Stale ==
    LET window_image_path == Image(image_id(dataset), run.images_dir,
                                   dataset.next_source_id, run.window).file_name
    IN  /\ window_image_path \in DOMAIN artifacts
        /\ artifacts[window_image_path] # run.src_name

SaveRun == run_pc = "idle" /\ SaveDataset
LoadRun == run_pc = "idle" /\ LoadDataset

Init ==
    /\ DatasetIdle
    /\ RunIdle
    /\ CategoriesIdle
    /\ MaskIdle
    /\ SchemaIdle
    /\ TilerIdle
    /\ EstimateIdle

Next ==
    \/ \E images_dir \in Dirs, src_name \in Rasters, labels \in RunLabelTables :
          StartRun(images_dir, src_name, labels)
    \/ \E outcome \in PreflightErrors \cup {""}, n_windows \in 0..MaxTiles :
          Preflight(outcome, n_windows)
    \/ RunAddSource
    \/ RunVerifyDir
    \/ \E intersects \in [1..Len(run.labels) -> BOOLEAN] :
          \E has_mask \in [1..Len(run.labels) -> BOOLEAN] :
             /\ \A r \in 1..Len(run.labels) : has_mask[r] => intersects[r]
             /\ \E stale_mask \in (IF Stale THEN [1..Len(run.labels) -> BOOLEAN]
                                   ELSE {has_mask}) :
                   ProcessWindow(intersects, has_mask, stale_mask)
    \/ ReturnDataset
    \/ SaveRun
    \/ LoadRun

Spec == Init /\ [][Next]_vars

(***************************************************************************)
(* Claims about WindowSchema, generate_window_offsets and window_factory.  *)
(***************************************************************************)
AxisValid(window, overlap) == window > 0 /\ overlap >= 0 /\ window - 2 * overlap > 0

\* C1: construction succeeds exactly when window > 0, overlap >= 0 and
\* window - 2*overlap > 0 in both axes; the schema then carries
\* step = window - 2*overlap whatever step the caller passed; window <= 2*overlap
\* in either axis makes construction fail.
C1_SchemaConstruction ==
    schema_result.status \in {"ok", "error"} =>
        LET a == schema_args
            v == schema_result.value
        IN  /\ (schema_result.status = "ok") <=>
                  (AxisValid(a.width_window, a.width_overlap)
                   /\ AxisValid(a.height_window, a.height_overlap))
            /\ schema_result.status = "ok" =>
                  /\ v.width_step = a.width_window - 2 * a.width_overlap
                  /\ v.height_step = a.height_window - 2 * a.height_overlap
                  /\ v.width_window = a.width_window /\ v.width_overlap = a.width_overlap
                  /\ v.height_window = a.height_window /\ v.height_overlap = a.height_overlap
            /\ (a.width_window <= 2 * a.width_overlap
                \/ a.height_window <= 2 * a.height_overlap) =>
                  schema_result.status = "error"

\* a schema built although the caller passed a different step
C1_Witness ==
    /\ schema_result.status = "ok"
    /\ schema_args.width_step = <<1>>
    /\ schema_result.value.width_step = 2
    /\ schema_args.width_overlap = 1

Cols(w) == w.col_off..(w.col_off + w.width - 1)
Rows(w) == w.row_off..(w.row_off + w.height - 1)
Yielded == {yielded[n] : n \in 1..Len(yielded)}
NonNegativeParent == parent_window.col_off >= 0 /\ parent_window.row_off >= 0

\* pixel bounding boxes <<x0, y0, x1, y1>> (x1, y1 exclusive) of the labels that
\* lie inside the parent and are at most overlap wide and high
SmallLabelBoxes ==
    { <<x0, y0, x0 + w, y0 + h>> :
        x0 \in Cols(parent_window), y0 \in Rows(parent_window),
        w \in 1..schema.width_overlap, h \in 1..schema.height_overlap }
    \cap { b \in Int \X Int \X Int \X Int :
             /\ b[3] <= parent_window.col_off + parent_window.width
             /\ b[4] <= parent_window.row_off + parent_window.height }

BoxInside(b, w) ==
    /\ w.col_off <= b[1] /\ b[3] <= w.col_off + w.width
    /\ w.row_off <= b[2] /\ b[4] <= w.row_off + w.height

\* C2: (boundless) every label box inside the parent that is at most
\* overlap_w wide and overlap_h high lies fully inside at least one yielded tile.
C2_LabelInOneTile ==
    (wf_pc = "done" /\ boundless /\ NonNegativeParent) =>
        \A b \in SmallLabelBoxes : \E w \in Yielded : BoxInside(b, w)

\* C3: (not boundless) the union of the yielded tiles equals the parent extent.
C3_GapFree ==
    (wf_pc = "done" /\ ~boundless /\ NonNegativeParent) =>
        /\ \A x \in Cols(parent_window), y \in Rows(parent_window) :
              \E w \in Yielded : x \in Cols(w) /\ y \in Rows(w)
        /\ \A w \in Yielded :
              Cols(w) \subseteq Cols(parent_window) /\ Rows(w) \subseteq Rows(parent_window)

Arithmetic(lo, hi, step) == {x \in lo..(hi - 1) : (x - lo) % step = 0}
ColOffsets ==
    Arithmetic(Max(0, parent_window.col_off - schema.width_overlap),
               parent_window.width + parent_window.col_off - schema.width_overlap,
               schema.width_step)
RowOffsets ==
    Arithmetic(Max(0, parent_window.row_off - schema.height_overlap),
               parent_window.height + parent_window.row_off - schema.height_overlap,
               schema.height_step)
Generated == wf_pc \in {"iter", "done", "raised"}

\* C4: the offsets are exactly the Cartesian product of the two arithmetic
\* sequences (each pair once), none is negative, and window 100, overlap 20
\* over a parent of width 1000 at offset 0 gives ceil(1000/60) = 17 column offsets.
C4_OffsetsAreProduct ==
    Generated =>
        /\ {window_offsets[n] : n \in 1..Len(window_offsets)} = ColOffsets \X RowOffsets
        /\ Len(window_offsets) = Cardinality(ColOffsets) * Cardinality(RowOffsets)
        /\ \A n \in 1..Len(window_offsets) :
              window_offsets[n][1] >= 0 /\ window_offsets[n][2] >= 0
        /\ (schema.width_window = 100 /\ schema.width_overlap = 20
            /\ parent_window.col_off = 0 /\ parent_window.width = 1000) =>
              /\ Cardinality({window_offsets[n][1] : n \in 1..Len(window_offsets)}) = 17
              /\ CeilDiv(1000, 60) = 17

\* the parent with negative offsets: the offsets start at 0
C4_Witness ==
    /\ Generated
    /\ parent_window.col_off < 0
    /\ Len(window_offsets) >= 4
    /\ window_offsets[1] = <<0, 0>>

\* C5 as stated: row-major, the row offset never decreases along the array.
C5_RowMajor ==
    Generated =>
        \A n, m \in 1..Len(window_offsets) :
            n < m => window_offsets[n][2] <= window_offsets[m][2]

\* C5 amended: the offsets are ordered column-major: all row offsets of one
\* column offset come, in increasing order, before the column offset advances,
\* and the n-th tile yielded is the one built at the n-th offset.
C5_ColumnMajor ==
    Generated =>
        /\ \A n, m \in 1..Len(window_offsets) :
              n < m =>
                 \/ window_offsets[n][1] < window_offsets[m][1]
                 \/ /\ window_offsets[n][1] = window_offsets[m][1]
                    /\ window_offsets[n][2] < window_offsets[m][2]
        /\ Len(yielded) <= Len(window_offsets)
        /\ \A n \in 1..Len(yielded) :
              /\ boundless =>
                    <<yielded[n].col_off, yielded[n].row_off>> = window_offsets[n]
              /\ ~boundless =>
                    /\ yielded[n].col_off = Max(window_offsets[n][1], parent_window.col_off)
                    /\ yielded[n].row_off = Max(window_offsets[n][2], parent_window.row_off)

\* two columns and two rows, all yielded
C5_Witness ==
    /\ wf_pc = "done"
    /\ Len(yielded) >= 4
    /\ window_offsets[1][1] = window_offsets[2][1]
    /\ window_offsets[1][2] < window_offsets[2][2]
    /\ window_offsets[1][1] < window_offsets[Len(window_offsets)][1]

ClampedCol == Max(0, parent_window.col_off - schema.width_overlap)
ClampedRow == Max(0, parent_window.row_off - schema.height_overlap)

\* C6 as stated: window >= parent extent in an axis gives exactly one offset in
\* that axis, the clamped start.
C6_OneOffsetWhenWindowCovers ==
    (Generated /\ NonNegativeParent) =>
        /\ schema.width_window >= parent_window.width =>
              col_range(parent_window, schema) = <<ClampedCol>>
        /\ schema.height_window >= parent_window.height =>
              row_range(parent_window, schema) = <<ClampedRow>>

\* C6 amended: step >= parent extent in an axis gives at most one offset in that
\* axis: the clamped start when parent offset + extent - overlap exceeds it,
\* and none otherwise.
C6_OneOffsetWhenStepCovers ==
    (Generated /\ NonNegativeParent) =>
        /\ schema.width_step >= parent_window.width =>
              col_range(parent_window, schema) =
                IF parent_window.col_off + parent_window.width - schema.width_overlap
                     > ClampedCol
                THEN <<ClampedCol>> ELSE <<>>
        /\ schema.height_step >= parent_window.height =>
              row_range(parent_window, schema) =
                IF parent_window.row_off + parent_window.height - schema.height_overlap
                     > ClampedRow
                THEN <<ClampedRow>> ELSE <<>>

\* a window larger than the parent, with overlap, and one tile
C6_Witness ==
    /\ wf_pc = "done"
    /\ schema.width_overlap > 0
    /\ schema.width_step >= parent_window.width
    /\ schema.height_step >= parent_window.height
    /\ parent_window.col_off > schema.width_overlap
    /\ Len(yielded) = 1

\* C7: boundless tiles have exactly the window's width and height; a clipped
\* tile is the intersection of the full-size tile with the parent and never
\* extends past it; window 110 over a 100x100 parent gives 110 and 100.
C7_BoundlessOrClipped ==
    \A n \in 1..Len(yielded) :
        LET w == yielded[n]
            full == Window(window_offsets[n][1], window_offsets[n][2],
                           schema.width_window, schema.height_window)
        IN  /\ boundless => w = full
            /\ ~boundless =>
                  /\ Cols(w) = Cols(full) \cap Cols(parent_window)
                  /\ Rows(w) = Rows(full) \cap Rows(parent_window)
                  /\ w.width > 0 /\ w.height > 0
                  /\ w.col_off + w.width <= parent_window.col_off + parent_window.width
                  /\ w.row_off + w.height <= parent_window.row_off + parent_window.height
            /\ (schema.width_window = 110 /\ parent_window = Window(0, 0, 100, 100)) =>
                  w.width = (IF boundless THEN 110 ELSE 100) /\ w.height = w.width

\* the 110 window clipped to the 100x100 parent
C7_Witness ==
    /\ ~boundless
    /\ schema.width_window = 110
    /\ Len(yielded) = 1
    /\ yielded[1] = Window(0, 0, 100, 100)

\* what the caller can see of candidate k, given the labels and the raster
CandidateFits(k) ==
    LET o == required_overlap(gdf_bounds, src_res)
    IN  window_bounds[k][1] - 2 * o[1] > 0 /\ window_bounds[k][2] - 2 * o[2] > 0

\* C8: every candidate is built with the one computed overlap; the schema
\* returned is that of the first candidate in list order whose steps are
\* positive; estimate_schema raises, with the last candidate's error as cause,
\* exactly when no candidate is valid.
C8_FirstFit ==
    LET o == est_overlap
        fits == {k \in 1..Len(window_bounds) : CandidateFits(k)}
    IN  /\ est_pc \in {"loop", "after", "returned", "raised"} =>
              \* ceil(average / res): the least o with o * res >= average
              /\ o[1] * src_res[1] * QuantileDen >= estimate_average_bounds(gdf_bounds)[1]
              /\ (o[1] - 1) * src_res[1] * QuantileDen < estimate_average_bounds(gdf_bounds)[1]
              /\ o[2] * src_res[2] * QuantileDen >= estimate_average_bounds(gdf_bounds)[2]
              /\ (o[2] - 1) * src_res[2] * QuantileDen < estimate_average_bounds(gdf_bounds)[2]
        /\ est_pc = "returned" =>
              /\ fits # {}
              /\ \A k \in fits : est_i <= k
              /\ est_i \in fits
              /\ est_schema.status = "ok"
              /\ est_schema.value.width_window = window_bounds[est_i][1]
              /\ est_schema.value.height_window = window_bounds[est_i][2]
              /\ est_schema.value.width_overlap = o[1]
              /\ est_schema.value.height_overlap = o[2]
              /\ est_schema.value.width_step = window_bounds[est_i][1] - 2 * o[1]
              /\ est_schema.value.height_step = window_bounds[est_i][2] - 2 * o[2]
        /\ est_pc = "raised" =>
              /\ fits = {}
              /\ window_bounds # <<>> =>
                    /\ est_cause # <<>>
                    /\ est_cause[1].candidate = Len(window_bounds)
                    /\ est_cause[1].errors # {}
              /\ window_bounds = <<>> => est_cause = <<>>
        /\ est_pc \in {"loop", "after"} =>
              \* every candidate before i was tried with that overlap and failed
              \A k \in 1..(est_i - 1) : ~CandidateFits(k)

\* an invalid candidate skipped, the second one returned
C8_Witness ==
    /\ est_pc = "returned"
    /\ est_i = 2
    /\ last_exception # <<>>
    /\ last_exception[1].candidate = 1
    /\ est_schema.value.width_overlap >= 2

(***************************************************************************)
(* Claims about the dataset aggregate.                                     *)
(***************************************************************************)
CountersMatch ==
    /\ dataset.next_image_id = Len(dataset.images) + 1
    /\ dataset.next_annotation_id = Len(dataset.annotations) + 1

OnlyChanged(fields) ==
    \A f \in DOMAIN dataset : f \notin fields => dataset'[f] = dataset[f]

\* C9: after creating or loading a dataset and any sequence of calls,
\* next_image_id = len(images) + 1 and next_annotation_id = len(annotations) + 1;
\* add_image changes only images and next_image_id, add_annotation only
\* annotations and next_annotation_id.
C9_CountersFollowLengths ==
    /\ []CountersMatch
    /\ [][(\E image \in ApiImages : AddImage(image)) =>
            /\ OnlyChanged({"images", "next_image_id"})
            /\ Len(dataset'.images) = Len(dataset.images) + 1
            /\ dataset'.next_image_id = dataset.next_image_id + 1]_vars
    /\ [][(\E annotation \in ApiAnnotations : AddAnnotation(annotation)) =>
            /\ OnlyChanged({"annotations", "next_annotation_id"})
            /\ Len(dataset'.annotations) = Len(dataset.annotations) + 1
            /\ dataset'.next_annotation_id = dataset.next_annotation_id + 1]_vars

\* a loaded dataset after an add_image and an add_annotation
C9_Witness ==
    /\ Len(dataset.images) = MaxLoaded + 1
    /\ Len(dataset.annotations) = MaxLoaded + 1
    /\ dataset.next_image_id = MaxLoaded + 2
    /\ dataset.images[1].id = 2

(***************************************************************************)
(* Claims about ingestion runs.                                            *)
(***************************************************************************)
IdsInListOrder(instances) == \A n \in 1..Len(instances) : instances[n].id = n

\* C10: starting from an empty aggregate, whenever no ingestion run is in
\* progress (after any sequence of completed or failed runs, with save_dataset
\* and load_dataset between them), the n-th image has id n and the n-th
\* annotation has id n: no id is reused and none is out of counter order.
C10_IdsFollowListOrder ==
    run_pc = "idle" =>
        /\ IdsInListOrder(dataset.images)
        /\ IdsInListOrder(dataset.annotations)

\* a second run has appended images and annotations to what was saved after
\* the first
C10_Witness ==
    /\ run_pc = "idle"
    /\ runs_done = MaxRuns
    /\ saved # <<>>
    /\ Len(saved[1].images) >= 1
    /\ Len(saved[1].annotations) >= 1
    /\ Len(dataset.images) > Len(saved[1].images)
    /\ Len(dataset.annotations) > Len(saved[1].annotations)
    /\ dataset.next_image_id = Len(dataset.images) + 1

(***************************************************************************)
(* Claims about sources and versions.                                      *)
(***************************************************************************)
Registered(ds, f) == \E n \in 1..Len(ds.sources) : ds.sources[n].file_name = f

PatchBumped(v) == [major |-> v.major, minor |-> v.minor, patch |-> v.patch + 1]
MinorBumped(v) == [major |-> v.major, minor |-> v.minor + 1, patch |-> 0]
MajorBumped(v) == [major |-> v.major + 1, minor |-> 0, patch |-> 0]

SourcesDistinct(sources) ==
    \A m, n \in 1..Len(sources) :
        m # n => /\ sources[m].file_name # sources[n].file_name
                 /\ sources[m].id # sources[n].id

\* C11: add_source(f) on a registered f adds no Source and bumps the version by
\* patch; otherwise it appends exactly one Source with id = len(sources) + 1
\* (the length before the call) and bumps by minor.  No two Sources ever share
\* a file_name or an id.
C11_AddSource ==
    /\ []SourcesDistinct(dataset.sources)
    /\ [][\A f \in Rasters : AddSource(f) =>
            IF Registered(dataset, f)
            THEN /\ dataset'.sources = dataset.sources
                 /\ dataset'.info.version = PatchBumped(dataset.info.version)
            ELSE /\ dataset'.sources =
                        Append(dataset.sources, Source(Len(dataset.sources) + 1, f))
                 /\ dataset'.info.version = MinorBumped(dataset.info.version)]_vars

\* two files registered, and one of them registered again
C11_Witness ==
    /\ Len(dataset.sources) = 2
    /\ dataset.sources[1].id = 1
    /\ dataset.sources[2].id = 2
    /\ dataset.info.version = Version(0, 2, 1)

\* the images the run in progress has appended so far
AppendedInRun ==
    {dataset.images[n] : n \in (Len(run.entry[1].images) + 1)..Len(dataset.images)}

\* C12: next_source_id is 0 while there are no sources; from add_source(f) to
\* the end of the run it is the id of the Source whose file_name is f, also
\* when f was registered before other sources, and every Image the run appends
\* carries it as source_id.
C12_NextSourceId ==
    /\ dataset.sources = <<>> => dataset.next_source_id = 0
    /\ run_pc \in {"verify_dir", "windows"} =>
          /\ \E n \in 1..Len(dataset.sources) :
                /\ dataset.sources[n].file_name = run.src_name
                /\ dataset.next_source_id = dataset.sources[n].id
          /\ \A image \in AppendedInRun : image.source_id = dataset.next_source_id

\* a.tif, b.tif, a.tif: the third run is back at source 1 and has appended an
\* Image
C12_Witness ==
    /\ run_pc = "windows"
    /\ run.src_name = "a.tif"
    /\ dataset.sources = <<Source(1, "a.tif"), Source(2, "b.tif")>>
    /\ Len(run.entry[1].sources) = 2
    /\ dataset.next_source_id = 1
    /\ AppendedInRun # {}

Returning == run_pc = "windows" /\ run.window > run.n_windows

\* the one bump the run's inputs call for, from the dataset as it was passed in
HighestTier(entry, images_dir, src_name) ==
    IF \A n \in 1..Len(entry.images) : entry.images[n].file_name.parent # images_dir
    THEN MajorBumped(entry.info.version)
    ELSE IF ~Registered(entry, src_name)
    THEN MinorBumped(entry.info.version)
    ELSE PatchBumped(entry.info.version)

InRun == run.entry # <<>>
VersionChanges == dataset'.info.version # dataset.info.version

\* C14: within one ingestion run info.version takes at most one new value:
\* every change of the version during a run starts from the version the run
\* was called with.
C14_BumpedAtMostOnce ==
    [][(InRun /\ VersionChanges) =>
          dataset.info.version = run.entry[1].info.version]_vars

\* C14 as the code has it: add_source bumps the version the run was called
\* with by minor or patch, and verify_new_output_dir, when the directory is
\* new, bumps that once more to the major bump of the version at the call; no
\* other step of the run changes the version.
C14_BumpedOnceOrTwice ==
    [][(InRun /\ VersionChanges) =>
          LET v == run.entry[1].info.version
          IN  \/ /\ run_pc = "add_source"
                 /\ dataset.info.version = v
                 /\ dataset'.info.version \in {MinorBumped(v), PatchBumped(v)}
              \/ /\ run_pc = "verify_dir"
                 /\ dataset.info.version \in {MinorBumped(v), PatchBumped(v)}
                 /\ dataset'.info.version = MajorBumped(v)]_vars

\* a run on a registered raster and a new directory, after both of its bumps
C14_Witness ==
    /\ run_pc = "windows"
    /\ Registered(run.entry[1], run.src_name)
    /\ run.entry[1].info.version.major = 1
    /\ dataset.info.version = MajorBumped(run.entry[1].info.version)

VersionLess(v, w) ==
    \/ v.major < w.major
    \/ v.major = w.major /\ v.minor < w.minor
    \/ v.major = w.major /\ v.minor = w.minor /\ v.patch < w.patch

\* C15: bump_version(tier) increments the requested component by one, resets
\* the lower components to zero and keeps the higher ones, so the version
\* strictly increases on every bump; no add_source, verify_new_output_dir or
\* bump_version call ever decreases it; a tier outside patch/minor/major is
\* rejected and leaves the version unchanged.
C15_BumpVersion ==
    /\ [][BumpVersion("patch") =>
            dataset'.info.version = PatchBumped(dataset.info.version)]_vars
    /\ [][BumpVersion("minor") =>
            dataset'.info.version = MinorBumped(dataset.info.version)]_vars
    /\ [][BumpVersion("major") =>
            dataset'.info.version = MajorBumped(dataset.info.version)]_vars
    /\ [][(\E m \in BumpMethods : BumpVersion(m)) =>
            VersionLess(dataset.info.version, dataset'.info.version)]_vars
    /\ [][~VersionLess(dataset'.info.version, dataset.info.version)]_vars
    /\ [][BumpVersion("build") => (raised' = "ValueError" /\ dataset' = dataset)]_vars

\* a rejected tier after bumps of all three tiers
C15_Witness ==
    /\ raised = "ValueError"
    /\ dataset.info.version = Version(2, 1, 1)

Applied(ds, batch) ==
    add_categories(ds, batch.category_ids, batch.category_names, batch.super_names)

\* the step is the call of add_categories with this batch
Calls(batch) ==
    /\ cat_args' = <<batch>>
    /\ AddCategories(batch.category_ids, batch.category_names, batch.super_names)

KeyAttribute(batch) == IF batch.category_ids # <<>> THEN "id" ELSE "name"

\* the distinct keys of a batch: its ids when ids are given, otherwise its names
Keys(batch) ==
    IF batch.category_ids # <<>> THEN Range(batch.category_ids[1])
    ELSE IF batch.category_names # <<>> THEN Range(batch.category_names[1])
    ELSE {}

KnownKeys(ds, batch) ==
    {ds.categories[n][KeyAttribute(batch)] : n \in 1..Len(ds.categories)}

IsPrefix(s, t) == Len(s) <= Len(t) /\ \A n \in 1..Len(s) : s[n] = t[n]

\* C17: add_categories is idempotent: applying a batch (ids only, names only or
\* both) a second time appends no category and leaves the table as the first
\* application left it; a batch accepted with exactly one key that is not in
\* the table appends exactly one category.
C17_Idempotent ==
    [][\A batch \in CategoryBatches : Calls(batch) =>
          /\ Applied(dataset', batch).dataset = dataset'
          /\ IsPrefix(dataset.categories, dataset'.categories)
          /\ (raised' = "" /\ Cardinality(Keys(batch) \ KnownKeys(dataset, batch)) = 1) =>
                Len(dataset'.categories) = Len(dataset.categories) + 1]_vars

\* the names a and c applied to a table that had a and b: c was appended, and
\* the state is also the one a second application of the batch leaves
C17_Witness ==
    /\ cat_args = <<Batch(<<>>, <<<<<<97>>, <<99>>>>>>, <<>>)>>
    /\ raised = ""
    /\ Len(dataset.categories) = 3
    /\ dataset.categories[1].name = <<97>>
    /\ dataset.categories[2].name = <<98>>
    /\ dataset.categories[3].name = <<99>>

NamesOnly(batch) == batch.category_ids = <<>> /\ batch.category_names # <<>>

\* the categories a step has appended
AppendedCategories ==
    [n \in 1..(Len(dataset'.categories) - Len(dataset.categories)) |->
        dataset'.categories[Len(dataset.categories) + n]]

MaxId(ds) ==
    IF ds.categories = <<>> THEN 0
    ELSE SetMax({ds.categories[n].id : n \in 1..Len(ds.categories)})

\* C18: given only names, add_categories gives the new names the contiguous
\* ids M+1, M+2, ... where M is the maximum id over all categories already in
\* the table (0 for an empty table), whichever existing names the batch holds.
C18_NamesContinueFromMaxId ==
    [][\A batch \in CategoryBatches : (NamesOnly(batch) /\ Calls(batch)) =>
          {AppendedCategories[n].id : n \in 1..Len(AppendedCategories)} =
              (MaxId(dataset) + 1)..(MaxId(dataset) + Len(AppendedCategories))]_vars

FirstIndex(column, value) ==
    CHOOSE i \in 1..Len(column) :
        column[i] = value /\ \A j \in 1..(i - 1) : column[j] # value

\* C19: given only names, add_categories assigns the new names their ids in
\* the order in which they first appear in the batch: a new name that first
\* appears earlier gets a smaller id than one that first appears later.
C19_FirstAppearanceOrder ==
    [][\A batch \in CategoryBatches : (NamesOnly(batch) /\ Calls(batch)) =>
          \A m, n \in 1..Len(AppendedCategories) :
              FirstIndex(batch.category_names[1], AppendedCategories[m].name)
                  < FirstIndex(batch.category_names[1], AppendedCategories[n].name)
              => AppendedCategories[m].id < AppendedCategories[n].id]_vars

\* C19 as the code has it: given only names, the new names are appended and
\* numbered in their sorted (lexicographic) order, each id one more than the
\* one before, wherever the names stand in the batch.
C19_SortedOrder ==
    [][\A batch \in CategoryBatches : (NamesOnly(batch) /\ Calls(batch)) =>
          \A m, n \in 1..Len(AppendedCategories) :
              m < n => /\ LexLE(AppendedCategories[m].name, AppendedCategories[n].name)
                       /\ AppendedCategories[m].name # AppendedCategories[n].name
                       /\ AppendedCategories[n].id = AppendedCategories[m].id + (n - m)]_vars

\* the names b, a given to an empty table: a has id 1 and b has id 2
C19_Witness ==
    /\ cat_args = <<Batch(<<>>, <<<<<<98>>, <<97>>>>>>, <<>>)>>
    /\ dataset.categories = <<Category(1, <<97>>, super_default), Category(2, <<98>>, super_default)>>

\* C20: starting from an empty table, after any sequence of add_categories
\* calls in any mix of modes no two categories have the same id, and every id
\* is a positive integer.
C20_CategoryIdsUnique ==
    /\ \A m, n \in 1..Len(dataset.categories) :
          m # n => dataset.categories[m].id # dataset.categories[n].id
    /\ \A n \in 1..Len(dataset.categories) : dataset.categories[n].id >= 1

\* C21: starting from an empty table, after any sequence of add_categories
\* calls in any mix of modes no two categories have the same name.
C21_CategoryNamesUnique ==
    \A m, n \in 1..Len(dataset.categories) :
        m # n => dataset.categories[m].name # dataset.categories[n].name

(***************************************************************************)
(* Claims about whole ingestion runs.                                      *)
(***************************************************************************)
Collections == {"images", "annotations", "categories", "sources"}

\* everything in old is in new, unchanged and at the same position
Extends(old, new) == \A f \in Collections : IsPrefix(old[f], new[f])

\* C22: the aggregate is append-only: every step of an ingestion run
\* (add_categories, add_source, add_annotation, add_image) and the run as a
\* whole leave the images, annotations, categories and sources that existed
\* before as an unchanged prefix of the collection; only load_dataset replaces
\* them.
C22_AppendOnly ==
    /\ [][LoadRun \/ Extends(dataset, dataset')]_vars
    /\ [](InRun => Extends(run.entry[1], dataset))

\* a third run returning, having appended categories, a source, an image and
\* an annotation to a dataset that already had some of each
C22_Witness ==
    /\ Returning
    /\ runs_done = 3
    /\ \A f \in Collections :
          /\ Len(run.entry[1][f]) >= 1
          /\ Len(dataset[f]) > Len(run.entry[1][f])

KeyColumn(batch) ==
    IF batch.category_ids # <<>> THEN batch.category_ids[1] ELSE batch.category_names[1]

\* neither ids nor names, or columns of different lengths
Malformed(batch) ==
    \/ batch.category_ids = <<>> /\ batch.category_names = <<>>
    \/ /\ batch.category_ids # <<>>
       /\ batch.category_names # <<>>
       /\ Len(batch.category_ids[1]) # Len(batch.category_names[1])
    \/ /\ batch.category_ids # <<>> \/ batch.category_names # <<>>
       /\ batch.super_names # <<>>
       /\ Len(batch.super_names[1]) # Len(KeyColumn(batch))

\* C23: add_categories called with neither ids nor names, or with ids and
\* names (or supercategories) of different lengths, always fails, and leaves
\* the category table and the rest of the aggregate as they were.
C23_MalformedBatchFails ==
    [][\A batch \in CategoryBatches : (Malformed(batch) /\ Calls(batch)) =>
          /\ raised' # ""
          /\ dataset' = dataset]_vars

\* what the batch pairs with the first occurrence of a key
PairedName(batch, key) ==
    IF batch.category_names = <<>> THEN Str(key)
    ELSE batch.category_names[1][FirstIndex(KeyColumn(batch), key)]

PairedSuper(batch, key) ==
    IF batch.super_names = <<>> THEN "1"
    ELSE batch.super_names[1][FirstIndex(KeyColumn(batch), key)]

\* C24: an accepted batch is deduplicated by key (id when ids are given,
\* otherwise name): each key absent from the table yields exactly one new
\* Category, with the name and supercategory paired with the key's first
\* occurrence in the batch, and keys in the table yield none; with ids only
\* the name is the string form of the id, without supercategories the
\* supercategory is "1".
C24_FirstOccurrenceWins ==
    [][\A batch \in CategoryBatches : (Calls(batch) /\ raised' = "" /\ Keys(batch) # {}) =>
          LET attribute == KeyAttribute(batch)
              absent == Keys(batch) \ KnownKeys(dataset, batch)
          IN  /\ Len(AppendedCategories) = Cardinality(absent)
              /\ \A key \in absent :
                    \E n \in 1..Len(AppendedCategories) :
                        /\ AppendedCategories[n][attribute] = key
                        /\ AppendedCategories[n].name = PairedName(batch, key)
                        /\ AppendedCategories[n].supercategory = PairedSuper(batch, key)]_vars

\* the id 2 given twice, with supercategories t and s: one Category, named
\* "2", in supercategory t
C24_Witness ==
    /\ cat_args = <<Batch(<<<<2, 2>>>>, <<>>, <<<<"t", "s">>>>)>>
    /\ dataset.categories = <<Category(2, <<50>>, "t")>>

Completed == run_pc = "idle" /\ raised = ""

Annotated(ds, image) ==
    \E n \in 1..Len(ds.annotations) : ds.annotations[n].image_id = image.id

\* C25: after every completed ingestion run every Image of the aggregate has
\* at least one Annotation whose image_id is its id: a tile yields an Image
\* only if one of its intersecting labels has a non-empty mask.
C25_EveryImageAnnotated ==
    Completed => \A n \in 1..Len(dataset.images) : Annotated(dataset, dataset.images[n])

\* C26: round trip: for every aggregate reached by creation, ingestion runs
\* and add_* calls, save_dataset followed by load_dataset gives an aggregate
\* equal to it in every field, the three id counters included.
C26_RoundTrip ==
    run_pc = "idle" => load_dataset(to_json(dataset)) = dataset

(***************************************************************************)
(* Claims about mask_label.                                                *)
(***************************************************************************)
MaskCalled == mask_args # <<>>

OffRaster(call) == call.label \cap (1..call.input_raster.width) = {}

AllFalse(result) ==
    /\ result.raised = ""
    /\ result.value # <<>>
    /\ \A pixel \in DOMAIN result.value[1] : ~result.value[1][pixel]

SkippedWrite == run_pc = "windows" /\ run'.window = run.window + 1 /\ run'.tile # <<>>

\* what the window appends when its artifact is written by this run
FreshlyWritten(ds, tile) ==
    LET window_labels == SelectSeq(run.labels, LAMBDA l : tile.intersects[l.geometry])
    IN  add_image(add_annotations(ds, sort_values(window_labels), tile.has_mask),
                  Image(ds.next_image_id, run.images_dir, ds.next_source_id, run.window))

\* C28: when a tile's artifact already exists at its path the run does not
\* write or overwrite it, yet it appends exactly the Image and Annotations,
\* with the same ids, that it would append if the artifact did not exist.
C28_IdempotentSkip ==
    [][/\ \A path \in DOMAIN artifacts :
             path \in DOMAIN artifacts' /\ artifacts'[path] = artifacts[path]
       /\ SkippedWrite => dataset' = FreshlyWritten(dataset, run'.tile[1])]_vars

(***************************************************************************)
(* Claims about the references between the collections.                    *)
(***************************************************************************)
\* the members of a collection that have the id
WithId(collection, id) == {n \in 1..Len(collection) : collection[n].id = id}

ImagesResolve(ds) ==
    \A n \in 1..Len(ds.annotations) :
       Cardinality(WithId(ds.images, ds.annotations[n].image_id)) = 1

CategoriesResolve(ds) ==
    \A n \in 1..Len(ds.annotations) :
       Cardinality(WithId(ds.categories, ds.annotations[n].category_id)) = 1

\* the Images a window of the run appends name the Source of the run's raster
SourceOfRun ==
    (run_pc = "windows" /\ Len(dataset'.images) > Len(dataset.images)) =>
       \A n \in (Len(dataset.images) + 1)..Len(dataset'.images) :
          \E m \in 1..Len(dataset'.sources) :
             /\ dataset'.sources[m].id = dataset'.images[n].source_id
             /\ dataset'.sources[m].file_name = run.src_name
             /\ WithId(dataset'.sources, dataset'.images[n].source_id) = {m}

\* C29: after every completed ingestion run on an aggregate that started
\* empty, each Annotation's image_id is the id of exactly one Image, each
\* Image's source_id is the id of the Source of the raster of the run that
\* produced it, and each Annotation's category_id is the id of exactly one
\* Category.
C29_ReferentialIntegrity ==
    /\ [](Completed => (ImagesResolve(dataset) /\ CategoriesResolve(dataset)))
    /\ [][SourceOfRun]_vars

(***************************************************************************)
(* Claims about failed runs.                                               *)
(***************************************************************************)
\* window_intersect or estimate_schema raises
PreflightFails == run_pc = "preflight" /\ run_pc' = "idle" /\ raised' # ""

\* C30: a run that fails with a geometry/extent error or because no
\* candidate gives a valid schema raises before any tile is processed and
\* leaves the aggregate exactly as it was before the run: categories,
\* sources, images, annotations, counters and version are unchanged.
C30_FailedRunLeavesAggregate ==
    [][PreflightFails => dataset' = run.entry[1]]_vars

====
